---- MODULE Spec2Model ----
(***************************************************************************)
(* The RelaySession durable object of plover-websocket-relay               *)
(* (src/src/relay-session.mjs), one session per actor.                     *)
(*                                                                         *)
(* State: the durable store (tokens, id counter), the single alarm, the    *)
(* host's tagged socket registry, and the two in-memory fields of the      *)
(* actor (nextTabletId, newTabletToken), which a restart loses.            *)
(* One action per handler: fetch (POST, non-upgrade, connect, join, other  *)
(* path), webSocketMessage, webSocketClose, alarm; plus the host's         *)
(* restart of the actor.  Each handler runs to completion: the host       *)
(* delivers no other event while a handler awaits the store.  The worker   *)
(* creates a session id for each POST, so an actor is initialized once.    *)
(* The store does not fail in Spec; in SpecStoreFails each storage call of *)
(* a handshake or of the alarm may throw.  SpecFair adds the scheduling of *)
(* the host: an armed alarm fires, a handler returns.                      *)
(* SpecCascade and SpecCascadeOpen follow the close events that the        *)
(* actor's own close() calls bring about (closing); SpecOverlap follows    *)
(* the handshakes from await to await (handlers), with the host's rule on  *)
(* the delivery of events stated by GateOpen.                              *)
(*                                                                         *)
(* What a handler emitted is kept until the next event: the HTTP response, *)
(* the frames sent (sent), the socket.close calls made (closes), and the   *)
(* event itself (ev).                                                      *)
(*                                                                         *)
(* JavaScript values: numbers are integers; null, NaN and undefined are    *)
(* the three integers below, outside the range of ids and tokens.  Tokens  *)
(* are integers: a POST supplies the tokens of PostBodies, getNewToken()   *)
(* yields 1, 2, ... (a 256 bit random string, never issued twice).         *)
(* The fields publicKey and timestamp of the tablet_connected frame are    *)
(* left out.                                                               *)
(***************************************************************************)
EXTENDS Integers, Sequences, FiniteSets, TLC

\* ---- bounds of the model
MaxSockets == 3     \* socket pairs accepted over the life of the session
MaxJoins == 2       \* successful joins (tokens generated, ids assigned)
MaxRequests == 2    \* handshakes followed await by await

\* ---- JavaScript's null, NaN and undefined
null == -1
NaN == -2
undefined == -3

\* ---- constants of the program
sessionAlarmTime == 5 * 60 * 1000
keepAliveInterval == 30 * 1000
NoAlarm == 0

PC == "pc"
TABLET == "tablet"
UNKNOWN == "unknown"
TAG_TYPE == "type"
TAG_ID == "id"
PC_TYPE == <<TAG_TYPE, PC>>
TABLET_TYPE == <<TAG_TYPE, TABLET>>
NoTag == <<>>

TABLET_ID_COUNTER == "tabletIdCounter"
TABLET_CONNECTION_TOKEN == "tabletConnectionToken"
PC_CONNECTION_TOKEN == "pcConnectionToken"
TABLET_CONNECTED == "tablet_connected"
SESSION_CLOSED_BY_CLIENT_PREFIX == "Session closed by"
LAST_TABLET_DISCONNECTED == "Last tablet disconnected"
SYSTEM == "system"
CONNECTION_ESTABLISHED == "Connection established"
INITIALIZATION_SUCCESSFUL == "Initialization successful"
EXPECTED_WEBSOCKET == "Expected WebSocket"
INVALID_TOKEN == "Invalid token"
PARTICIPANTS_LIST == "participants_list"
GET_PARTICIPANTS_CMD == "get_participants"
CLOSE_CMD == "close"
CONNECT == "connect"
JOIN == "join"

\* http-status-codes and websocket-event-codes, as the handlers use them
OK == 200
UPGRADE_REQUIRED == 426
SWITCHING_PROTOCOLS == 101
CONFLICT == 409
FORBIDDEN == 403
INTERNAL_SERVER_ERROR == 500
NORMAL_CLOSURE == 1000
POLICY_VIOLATION == 1008

\* ---- inputs
\* the bodies of a POST: <<tabletConnectionToken, pcConnectionToken>>
PostBodies == {<<101, 201>>, <<102, 202>>}
Roles == {PC, TABLET, UNKNOWN}

VARIABLES
  storage,         \* ctx.storage: a function from the keys present to their values
  alarm,           \* the armed alarm's delay, or NoAlarm
  sockets,         \* the registry: socket handle -> tags, a sequence of <<key, value>>
  nextTabletId,    \* this.nextTabletId (memory)
  newTabletToken,  \* this.newTabletToken (memory)
  nextHandle,      \* number of server-side socket halves accepted so far
  issued,          \* number of tokens getNewToken() has produced
  ev,              \* the event handled last, with its inputs
  response,        \* the Response the last fetch returned
  sent,            \* frames sent by the last handler: <<[to, frame], ...>>
  closes,          \* socket.close calls of the last handler: <<[sock, code, reason], ...>>
  usedTokens,      \* history: the tokens a join has succeeded with
  assigned,        \* history: the ids given to satellites, in the order of the joins
  closing,         \* close events to come: socket the actor called close on -> reason
  handlers         \* the handshakes followed await by await: <<[pathEnd, token, at, ...], ...>>

vars == <<storage, alarm, sockets, nextTabletId, newTabletToken,
          issued, nextHandle, ev, response, sent, closes,
          usedTokens, assigned, closing, handlers>>

history == <<usedTokens, assigned>>

\* ---- helpers
RECURSIVE SortedSeq(_)
SortedSeq(S) ==
  IF S = {} THEN <<>>
  ELSE LET m == CHOOSE x \in S : \A y \in S : x <= y
       IN  <<m>> \o SortedSeq(S \ {m})

Range(s) == {s[i] : i \in 1..Len(s)}


\* `${n}` and parseInt(s, 10) on the ids of the model
Digits == <<"0", "1", "2", "3", "4", "5", "6", "7", "8", "9">>
Str(v) ==
  CASE v = null -> "null"
    [] v = NaN -> "NaN"
    [] v = undefined -> "undefined"
    [] OTHER -> Digits[v + 1]
parseInt(s) ==
  IF \E n \in 0..9 : Digits[n + 1] = s
  THEN CHOOSE n \in 0..9 : Digits[n + 1] = s
  ELSE NaN
\* JSON.stringify of a number: NaN becomes null
JsonNumber(v) == IF v = NaN THEN null ELSE v

\* ---- the socket registry (ctx.getWebSockets, ctx.getTags)
getWebSockets(reg, tag) ==
  SortedSeq({h \in DOMAIN reg : tag = NoTag \/ tag \in Range(reg[h])})

getTags(reg, ws) == IF ws \in DOMAIN reg THEN reg[ws] ELSE <<>>

getClientInfoStep(info, tag) ==
  CASE tag[1] = TAG_TYPE -> [info EXCEPT !.type = tag[2]]
    [] tag[1] = TAG_ID -> [info EXCEPT !.id = parseInt(tag[2])]
    [] OTHER -> info

\* tags.reduce(step, info)
RECURSIVE reduce(_, _)
reduce(tags, info) ==
  IF tags = <<>> THEN info ELSE reduce(Tail(tags), getClientInfoStep(info, Head(tags)))

getClientInfo(tags) == reduce(tags, [id |-> null, type |-> UNKNOWN])

\* JSON.stringify(getClientInfo(..)), as it appears in a frame
JsonInfo(info) == [id |-> JsonNumber(info.id), type |-> info.type]

\* a store whose get gives null for a key it does not hold
storageGetNull(store, key) == IF key \in DOMAIN store THEN store[key] ELSE null

\* ---- the durable store
storageGet(store, key) == IF key \in DOMAIN store THEN store[key] ELSE undefined
storagePut(store, key, value) == [k \in DOMAIN store \cup {key} |-> IF k = key THEN value ELSE store[k]]
storageDelete(store, key) == [k \in DOMAIN store \ {key} |-> store[k]]

\* (await storage.get(TABLET_ID_COUNTER)) || 0
getNextTabletId(store) ==
  IF TABLET_ID_COUNTER \in DOMAIN store THEN store[TABLET_ID_COUNTER] ELSE 0

getNewToken(n) == n + 1

\* ---- fetch
\* a singleton check that lets a second socket of the type in
enforceSingletonSecond(reg, deviceType) ==
  Len(getWebSockets(reg, <<TAG_TYPE, deviceType>>)) > 1

\* TRUE when enforceSingleton throws SingletonViolation
enforceSingleton(reg, deviceType) ==
  Len(getWebSockets(reg, <<TAG_TYPE, deviceType>>)) > 0

SingletonMessage(deviceType) == <<"A", deviceType, "is already connected to this session.">>

\* a connect() that checks the token before the singleton
connectTokenFirst(reg, store, pcToken) ==
  IF pcToken # storageGet(store, PC_CONNECTION_TOKEN) THEN "TokenError"
  ELSE IF enforceSingleton(reg, PC) THEN "SingletonViolation"
  ELSE "ok"

\* the outcome of connect(): the error thrown, or "ok"
connect(reg, store, pcToken) ==
  IF enforceSingleton(reg, PC) THEN "SingletonViolation"
  ELSE IF pcToken # storageGet(store, PC_CONNECTION_TOKEN) THEN "TokenError"
  ELSE "ok"

\* a join that stores the counter and leaves the token it was given in place
joinStoreSameToken(store, id, fresh) ==
  storagePut(store, TABLET_ID_COUNTER, id + 1)

\* a join that rotates the token and does not store the counter
joinStoreNoCounter(store, id, fresh) ==
  storagePut(store, TABLET_CONNECTION_TOKEN, fresh)

\* join(): the two puts, of the counter and of the rotated token
joinStore(store, id, fresh) ==
  storagePut(storagePut(store, TABLET_ID_COUNTER, id + 1), TABLET_CONNECTION_TOKEN, fresh)

\* a join that leaves the alarm as it finds it
joinAlarmKept(armed) == armed

\* join(): deleteAlarm(), then setAlarm(now + keepAliveInterval)
joinAlarm(armed) == keepAliveInterval

\* the token check of join(): the error thrown, or "ok"
join(store, token) ==
  IF token # storageGet(store, TABLET_CONNECTION_TOKEN) THEN "TokenError" ELSE "ok"

\* the catch block of fetch: the Response for an error
catchResponse(e, message) ==
  CASE e = "SingletonViolation" -> [status |-> CONFLICT, body |-> message, webSocket |-> 0]
    [] e = "TokenError" -> [status |-> FORBIDDEN, body |-> message, webSocket |-> 0]
    [] OTHER -> [status |-> INTERNAL_SERVER_ERROR, body |-> <<"Internal Server Error">>, webSocket |-> 0]

\* the catch block of fetch: the close calls it makes on the server half
catchCloses(e, server, message) == <<>>

tagsOf(clientType, clientId) == << <<TAG_TYPE, clientType>>, <<TAG_ID, Str(clientId)>> >>

\* JSON.stringify(welcomeMessage): a field that is undefined is left out
welcomeMessage(clientType, clientId, memToken) ==
  LET base == [clientType |-> clientType, id |-> clientId, type |-> SYSTEM,
               message |-> CONNECTION_ESTABLISHED]
  IN  IF memToken = undefined THEN base
      ELSE [clientType |-> clientType, id |-> clientId, type |-> SYSTEM,
            message |-> CONNECTION_ESTABLISHED, newTabletToken |-> memToken]

\* a notification that reports nextTabletId after its increment
tabletConnectedNext(clientId, token) ==
  [clientType |-> TABLET, id |-> clientId + 1, type |-> TABLET_CONNECTED, newTabletToken |-> token]

tabletConnected(clientId, token) ==
  [clientType |-> TABLET, id |-> clientId, type |-> TABLET_CONNECTED, newTabletToken |-> token]

FetchEvent(method, upgrade, pathEnd, token, server) ==
  [op |-> "fetch", method |-> method, upgrade |-> upgrade, pathEnd |-> pathEnd,
   token |-> token, server |-> server, fresh |-> nextTabletId = undefined]

Idle == [op |-> "idle"]
NoResponse == [status |-> 0, body |-> <<>>, webSocket |-> 0]

Init ==
  /\ storage = <<>>
  /\ alarm = NoAlarm
  /\ sockets = <<>>
  /\ nextTabletId = undefined
  /\ newTabletToken = undefined
  /\ issued = 0
  /\ nextHandle = 0
  /\ ev = Idle
  /\ response = NoResponse
  /\ sent = <<>>
  /\ closes = <<>>
  /\ usedTokens = {}
  /\ assigned = <<>>
  /\ closing = <<>>
  /\ handlers = <<>>

\* the token parameter of a request: a token some POST stores, a token issued so
\* far, or none (searchParams.get gives null)
ConnectTokens == {b[2] : b \in PostBodies} \cup {null}
JoinTokens == {b[1] : b \in PostBodies} \cup 1..issued \cup {null}

\* an initialization that keeps the tokens a session already has
initializeOnce(store, tabletConnectionToken, pcConnectionToken) ==
  IF PC_CONNECTION_TOKEN \in DOMAIN store THEN store
  ELSE storagePut(storagePut(store, TABLET_CONNECTION_TOKEN, tabletConnectionToken),
                  PC_CONNECTION_TOKEN, pcConnectionToken)

\* initialize(): the two puts
initialize(store, tabletConnectionToken, pcConnectionToken) ==
  storagePut(storagePut(store, TABLET_CONNECTION_TOKEN, tabletConnectionToken),
             PC_CONNECTION_TOKEN, pcConnectionToken)

\* fetch, POST branch: initialize(tabletConnectionToken, pcConnectionToken)
FetchPost(tabletConnectionToken, pcConnectionToken) ==
  /\ ev = Idle
  /\ nextTabletId' = getNextTabletId(storage)
  /\ storage' = initialize(storage, tabletConnectionToken, pcConnectionToken)
  /\ alarm' = sessionAlarmTime
  /\ response' = [status |-> OK, body |-> <<INITIALIZATION_SUCCESSFUL>>, webSocket |-> 0]
  /\ ev' = [op |-> "fetch", method |-> "POST", upgrade |-> FALSE, pathEnd |-> "",
            token |-> null, server |-> 0, fresh |-> nextTabletId = undefined,
            tabletConnectionToken |-> tabletConnectionToken,
            pcConnectionToken |-> pcConnectionToken]
  /\ sent' = <<>>
  /\ closes' = <<>>
  /\ UNCHANGED <<sockets, newTabletToken, issued, nextHandle>>
  /\ UNCHANGED history

\* the worker's session creation: a POST to the actor of a session id made for
\* it, which therefore has not been initialized
Initiate(tabletConnectionToken, pcConnectionToken) ==
  /\ PC_CONNECTION_TOKEN \notin DOMAIN storage
  /\ FetchPost(tabletConnectionToken, pcConnectionToken)

\* the server half of a new WebSocketPair: a handle no socket had before
\* (0 when the model's bound on socket pairs is reached)
newServer(n) == IF n < MaxSockets THEN n + 1 ELSE 0

\* the tail of a successful handshake: acceptWebSocket, the welcome frame, 101
Accept(server, clientType, clientId, memToken, notifications) ==
  /\ sockets' = sockets @@ (server :> tagsOf(clientType, clientId))
  /\ nextHandle' = server
  /\ sent' = notifications \o
             <<[to |-> server, frame |-> welcomeMessage(clientType, clientId, memToken)]>>
  /\ closes' = <<>>
  /\ response' = [status |-> SWITCHING_PROTOCOLS, body |-> <<>>, webSocket |-> server]

\* a failed handshake that leaves the server half of its pair in the registry
RejectRegistered(e, server, message) ==
  /\ response' = catchResponse(e, message)
  /\ closes' = catchCloses(e, server, message)
  /\ sent' = <<>>
  /\ sockets' = sockets @@ (server :> tagsOf(UNKNOWN, null))
  /\ nextHandle' = server

\* a handshake that threw e
Reject(e, server, message) ==
  /\ response' = catchResponse(e, message)
  /\ closes' = catchCloses(e, server, message)
  /\ sent' = <<>>
  /\ UNCHANGED <<sockets, nextHandle>>

\* a fetch that does not look at the Upgrade header: the request goes on to
\* the pair creation and the default case of the switch
FetchNoUpgradeAccepted(pathEnd) ==
  LET server == newServer(nextHandle)
  IN  /\ ev = Idle
      /\ server # 0
      /\ nextTabletId' = getNextTabletId(storage)
      /\ ev' = FetchEvent("GET", FALSE, pathEnd, null, server)
      /\ Accept(server, UNKNOWN, null, newTabletToken, <<>>)
      /\ UNCHANGED <<storage, alarm, newTabletToken, issued>>
      /\ UNCHANGED history

\* fetch, a request that is neither POST nor a WebSocket upgrade
FetchNoUpgrade(pathEnd) ==
  /\ ev = Idle
  /\ nextTabletId' = getNextTabletId(storage)
  /\ response' = [status |-> UPGRADE_REQUIRED, body |-> <<EXPECTED_WEBSOCKET>>, webSocket |-> 0]
  /\ ev' = FetchEvent("GET", FALSE, pathEnd, null, 0)
  /\ sent' = <<>>
  /\ closes' = <<>>
  /\ UNCHANGED <<storage, alarm, sockets, newTabletToken, issued, nextHandle>>
  /\ UNCHANGED history

\* fetch, upgrade request whose path ends in "connect"
FetchConnect(pcToken) ==
  LET server == newServer(nextHandle)
      e == connect(sockets, storage, pcToken)
  IN  /\ ev = Idle
      /\ server # 0
      /\ nextTabletId' = getNextTabletId(storage)
      /\ ev' = FetchEvent("GET", TRUE, CONNECT, pcToken, server)
      /\ IF e = "ok"
         THEN Accept(server, PC, 0, newTabletToken, <<>>)
         ELSE Reject(e, server,
                     IF e = "TokenError" THEN <<INVALID_TOKEN>> ELSE SingletonMessage(PC))
      /\ UNCHANGED <<storage, alarm, newTabletToken, issued>>
      /\ UNCHANGED history

\* fetch, upgrade request whose path ends in "join"
FetchJoin(token) ==
  LET server == newServer(nextHandle)
      e == join(storage, token)
      id == getNextTabletId(storage)
      fresh == getNewToken(issued)
      pcs == getWebSockets(sockets, PC_TYPE)
  IN  /\ ev = Idle
      /\ server # 0
      /\ ev' = FetchEvent("GET", TRUE, JOIN, token, server)
      /\ IF e = "ok"
         THEN /\ issued < MaxJoins
              /\ alarm' = joinAlarm(alarm)
              /\ nextTabletId' = id + 1
              /\ newTabletToken' = fresh
              /\ issued' = issued + 1
              /\ storage' = joinStore(storage, id, fresh)
              /\ usedTokens' = usedTokens \cup {token}
              /\ assigned' = Append(assigned, id)
              /\ Accept(server, TABLET, id, fresh,
                        [i \in 1..Len(pcs) |-> [to |-> pcs[i], frame |-> tabletConnected(id, fresh)]])
         ELSE /\ nextTabletId' = id
              /\ Reject(e, server, <<INVALID_TOKEN>>)
              /\ UNCHANGED <<storage, alarm, newTabletToken, issued>>
              /\ UNCHANGED history

\* a default case that applies the singleton check to the unknown type
FetchOtherSingleton ==
  LET server == newServer(nextHandle)
  IN  /\ ev = Idle
      /\ server # 0
      /\ nextTabletId' = getNextTabletId(storage)
      /\ ev' = FetchEvent("GET", TRUE, "other", null, server)
      /\ IF enforceSingleton(sockets, UNKNOWN)
         THEN Reject("SingletonViolation", server, SingletonMessage(UNKNOWN))
         ELSE Accept(server, UNKNOWN, null, newTabletToken, <<>>)
      /\ UNCHANGED <<storage, alarm, newTabletToken, issued>>
      /\ UNCHANGED history

\* fetch, upgrade request with any other path
FetchOther ==
  LET server == newServer(nextHandle)
  IN  /\ ev = Idle
      /\ server # 0
      /\ nextTabletId' = getNextTabletId(storage)
      /\ ev' = FetchEvent("GET", TRUE, "other", null, server)
      /\ Accept(server, UNKNOWN, null, newTabletToken, <<>>)
      /\ UNCHANGED <<storage, alarm, newTabletToken, issued>>
      /\ UNCHANGED history

\* ---- webSocketMessage
\* a sentinel test that asks for the reason to be the prefix and nothing more
startsWithOnly(reason, prefix) == reason = <<prefix>>

startsWith(reason, prefix) == Len(reason) >= 1 /\ reason[1] = prefix

\* `${SESSION_CLOSED_BY_CLIENT_PREFIX} ${sender.type} (id: ${sender.id})`
closeReason(sender) ==
  <<SESSION_CLOSED_BY_CLIENT_PREFIX, " ", sender.type, " (id: ", Str(sender.id), ")">>

\* a close command that spares the sockets that are not tablets
closeTablets(reg, sender) ==
  LET all == getWebSockets(reg, TABLET_TYPE)
  IN  [i \in 1..Len(all) |->
         [sock |-> all[i], code |-> NORMAL_CLOSURE, reason |-> closeReason(sender)]]

\* close(): socket.close on every socket of the session
close(reg, sender) ==
  LET all == getWebSockets(reg, NoTag)
  IN  [i \in 1..Len(all) |->
         [sock |-> all[i], code |-> NORMAL_CLOSURE, reason |-> closeReason(sender)]]

\* a participants list that leaves the sender out
getParticipantsOthers(reg, ws) ==
  LET all == SelectSeq(getWebSockets(reg, NoTag), LAMBDA s : s # ws)
  IN  <<[to |-> ws,
         frame |-> [type |-> PARTICIPANTS_LIST,
                    participants |-> [i \in 1..Len(all) |-> JsonInfo(getClientInfo(getTags(reg, all[i])))]]]>>

\* getParticipants(): one participants_list frame to the sender
getParticipants(reg, ws) ==
  LET all == getWebSockets(reg, NoTag)
  IN  <<[to |-> ws,
         frame |-> [type |-> PARTICIPANTS_LIST,
                    participants |-> [i \in 1..Len(all) |-> JsonInfo(getClientInfo(getTags(reg, all[i])))]]]>>

\* JSON.stringify({ payload, from: sender })
messageToSend(payload, sender) == [payload |-> payload, from |-> JsonInfo(sender)]

recipientType(recipient) == IF "type" \in DOMAIN recipient THEN recipient.type ELSE "undefined"

\* a private relay that looks at the id tag alone
privateRelayById(reg, recipient, frame) ==
  LET tagged == getWebSockets(reg, <<TAG_ID, Str(recipient.id)>>)
  IN  IF tagged # <<>> THEN <<[to |-> Head(tagged), frame |-> frame]>> ELSE <<>>

\* a private relay that falls back on the sockets of the recipient's type when
\* none of them has the recipient's id
privateRelayFallback(reg, recipient, frame) ==
  LET tagged == getWebSockets(reg, <<TAG_ID, Str(recipient.id)>>)
      found == SelectSeq(tagged, LAMBDA s : getClientInfo(getTags(reg, s)).type = recipientType(recipient))
      typed == getWebSockets(reg, <<TAG_TYPE, recipientType(recipient)>>)
  IN  IF found # <<>> THEN <<[to |-> Head(found), frame |-> frame]>>
      ELSE [i \in 1..Len(typed) |-> [to |-> typed[i], frame |-> frame]]

\* private message: the first socket tagged id:<to.id> whose type is to.type
privateRelay(reg, recipient, frame) ==
  LET tagged == getWebSockets(reg, <<TAG_ID, Str(recipient.id)>>)
      found == SelectSeq(tagged, LAMBDA s : getClientInfo(getTags(reg, s)).type = recipientType(recipient))
  IN  IF found # <<>> THEN <<[to |-> Head(found), frame |-> frame]>> ELSE <<>>

\* a public relay that echoes to the sender
publicRelayEcho(reg, ws, recipient, frame) ==
  LET tagged == getWebSockets(reg, <<TAG_TYPE, recipientType(recipient)>>)
  IN  [i \in 1..Len(tagged) |-> [to |-> tagged[i], frame |-> frame]]

\* public message: every socket tagged type:<to.type> but the sender
publicRelay(reg, ws, recipient, frame) ==
  LET tagged == getWebSockets(reg, <<TAG_TYPE, recipientType(recipient)>>)
      others == SelectSeq(tagged, LAMBDA s : s # ws)
  IN  [i \in 1..Len(others) |-> [to |-> others[i], frame |-> frame]]

Nothing == [sent |-> <<>>, closes |-> <<>>]

\* a message handler that looks at the command before the ping
webSocketMessageCommandFirst(reg, ws, message) ==
  LET sender == getClientInfo(getTags(reg, ws))
      data == message.data
      command == IF "payload" \in DOMAIN data /\ "command" \in DOMAIN data.payload
                 THEN data.payload.command ELSE "undefined"
  IN  IF ~message.json THEN Nothing
      ELSE IF command = CLOSE_CMD THEN [sent |-> <<>>, closes |-> close(reg, sender)]
      ELSE IF command = GET_PARTICIPANTS_CMD
        THEN [sent |-> getParticipants(reg, ws), closes |-> <<>>]
      ELSE IF "type" \in DOMAIN data /\ data.type = "ping"
        THEN [sent |-> <<[to |-> ws, frame |-> [type |-> "pong"]]>>, closes |-> <<>>]
      ELSE Nothing

\* a message handler that relays a frame with a recipient and no payload
webSocketMessageNoPayload(reg, ws, message) ==
  LET sender == getClientInfo(getTags(reg, ws))
      data == message.data
      hasPayload == "payload" \in DOMAIN data
      command == IF hasPayload /\ "command" \in DOMAIN data.payload
                 THEN data.payload.command ELSE "undefined"
      frame == IF hasPayload THEN messageToSend(data.payload, sender)
               ELSE [from |-> JsonInfo(sender)]
  IN  IF ~message.json THEN Nothing
      ELSE IF "type" \in DOMAIN data /\ data.type = "ping"
        THEN [sent |-> <<[to |-> ws, frame |-> [type |-> "pong"]]>>, closes |-> <<>>]
      ELSE IF command = CLOSE_CMD THEN [sent |-> <<>>, closes |-> close(reg, sender)]
      ELSE IF command = GET_PARTICIPANTS_CMD
        THEN [sent |-> getParticipants(reg, ws), closes |-> <<>>]
      ELSE IF ~("to" \in DOMAIN data) THEN Nothing
      ELSE IF "id" \in DOMAIN data.to
        THEN [sent |-> privateRelay(reg, data.to, frame), closes |-> <<>>]
      ELSE [sent |-> publicRelay(reg, ws, data.to, frame), closes |-> <<>>]

\* a message handler that closes the sender of a frame that does not parse
webSocketMessageCloseInvalid(reg, ws, message) ==
  LET sender == getClientInfo(getTags(reg, ws))
      data == message.data
      hasPayload == "payload" \in DOMAIN data
      command == IF hasPayload /\ "command" \in DOMAIN data.payload
                 THEN data.payload.command ELSE "undefined"
  IN  IF ~message.json
        THEN [sent |-> <<>>,
              closes |-> <<[sock |-> ws, code |-> POLICY_VIOLATION, reason |-> <<"Invalid JSON">>]>>]
      ELSE IF "type" \in DOMAIN data /\ data.type = "ping"
        THEN [sent |-> <<[to |-> ws, frame |-> [type |-> "pong"]]>>, closes |-> <<>>]
      ELSE IF command = CLOSE_CMD THEN [sent |-> <<>>, closes |-> close(reg, sender)]
      ELSE IF command = GET_PARTICIPANTS_CMD
        THEN [sent |-> getParticipants(reg, ws), closes |-> <<>>]
      ELSE IF ~("to" \in DOMAIN data) \/ ~hasPayload THEN Nothing
      ELSE IF "id" \in DOMAIN data.to
        THEN [sent |-> privateRelay(reg, data.to, messageToSend(data.payload, sender)),
              closes |-> <<>>]
      ELSE [sent |-> publicRelay(reg, ws, data.to, messageToSend(data.payload, sender)),
            closes |-> <<>>]

\* what webSocketMessage(ws, message) sends and closes
webSocketMessage(reg, ws, message) ==
  LET sender == getClientInfo(getTags(reg, ws))
      data == message.data
      hasPayload == "payload" \in DOMAIN data
      command == IF hasPayload /\ "command" \in DOMAIN data.payload
                 THEN data.payload.command ELSE "undefined"
  IN  IF ~message.json THEN Nothing
      ELSE IF "type" \in DOMAIN data /\ data.type = "ping"
        THEN [sent |-> <<[to |-> ws, frame |-> [type |-> "pong"]]>>, closes |-> <<>>]
      ELSE IF command = CLOSE_CMD THEN [sent |-> <<>>, closes |-> close(reg, sender)]
      ELSE IF command = GET_PARTICIPANTS_CMD
        THEN [sent |-> getParticipants(reg, ws), closes |-> <<>>]
      ELSE IF ~("to" \in DOMAIN data) \/ ~hasPayload THEN Nothing
      ELSE IF "id" \in DOMAIN data.to
        THEN [sent |-> privateRelay(reg, data.to, messageToSend(data.payload, sender)),
              closes |-> <<>>]
      ELSE [sent |-> publicRelay(reg, ws, data.to, messageToSend(data.payload, sender)),
            closes |-> <<>>]

\* the frames a client can send
Payload == [data |-> "hello"]
Messages ==
  {[json |-> FALSE, data |-> <<>>]} \cup
  {[json |-> TRUE, data |-> d] : d \in
     {[type |-> "ping"],
      [type |-> "ping", payload |-> [command |-> CLOSE_CMD], to |-> [type |-> TABLET]],
      [type |-> "ping", payload |-> Payload, to |-> [type |-> TABLET]],
      [payload |-> [command |-> CLOSE_CMD]],
      [payload |-> [command |-> GET_PARTICIPANTS_CMD]],
      [to |-> [type |-> TABLET]],
      [payload |-> Payload]}
     \cup {[to |-> [type |-> r], payload |-> Payload] : r \in Roles}
     \cup {[to |-> [type |-> r, id |-> i], payload |-> Payload] :
             r \in Roles, i \in 0..MaxJoins \cup {null}}}

WebSocketMessage(ws, message) ==
  LET out == webSocketMessage(sockets, ws, message)
  IN  /\ ev = Idle
      /\ ev' = [op |-> "message", ws |-> ws, message |-> message]
      /\ sent' = out.sent
      /\ closes' = out.closes
      /\ response' = NoResponse
      /\ UNCHANGED <<storage, alarm, sockets, nextTabletId, newTabletToken, issued, nextHandle>>
      /\ UNCHANGED history

\* ---- webSocketClose
\* a pc branch that closes one tablet socket only
pcDisconnectedFirst(reg, clientInfo) ==
  LET tablets == getWebSockets(reg, TABLET_TYPE)
  IN  [i \in 1..(IF Len(tablets) > 0 THEN 1 ELSE 0) |->
         [sock |-> tablets[i], code |-> NORMAL_CLOSURE,
          reason |-> <<clientInfo.type, " (id: ", Str(clientInfo.id), ") disconnected">>]]

\* case PC: socket.close on every tablet socket
pcDisconnected(reg, clientInfo) ==
  LET tablets == getWebSockets(reg, TABLET_TYPE)
  IN  [i \in 1..Len(tablets) |->
         [sock |-> tablets[i], code |-> NORMAL_CLOSURE,
          reason |-> <<clientInfo.type, " (id: ", Str(clientInfo.id), ") disconnected">>]]

\* a tablet branch that reports the id the counter gives next
lastTabletDisconnectedNext(reg, clientInfo) ==
  LET pcs == getWebSockets(reg, PC_TYPE)
  IN  [i \in 1..Len(pcs) |->
         [sock |-> pcs[i], code |-> NORMAL_CLOSURE,
          reason |-> <<LAST_TABLET_DISCONNECTED, " (was id: ", Str(clientInfo.id + 1), ")">>]]

\* case TABLET, no tablet socket left: socket.close on every pc socket
lastTabletDisconnected(reg, clientInfo) ==
  LET pcs == getWebSockets(reg, PC_TYPE)
  IN  [i \in 1..Len(pcs) |->
         [sock |-> pcs[i], code |-> NORMAL_CLOSURE,
          reason |-> <<LAST_TABLET_DISCONNECTED, " (was id: ", Str(clientInfo.id), ")">>]]

\* a close handler whose tablet branch does not count the tablets left
webSocketCloseAnyTablet(reg, tags, reason) ==
  LET clientInfo == getClientInfo(tags)
  IN  IF startsWith(reason, SESSION_CLOSED_BY_CLIENT_PREFIX) THEN <<>>
      ELSE IF clientInfo.type = PC THEN pcDisconnected(reg, clientInfo)
      ELSE IF clientInfo.type = TABLET THEN lastTabletDisconnected(reg, clientInfo)
      ELSE <<>>

\* a close handler that does not look at the reason
webSocketCloseAnyReason(reg, tags, reason) ==
  LET clientInfo == getClientInfo(tags)
  IN  IF clientInfo.type = PC THEN pcDisconnected(reg, clientInfo)
      ELSE IF clientInfo.type = TABLET /\ Len(getWebSockets(reg, TABLET_TYPE)) = 0
        THEN lastTabletDisconnected(reg, clientInfo)
      ELSE <<>>

\* the close calls of webSocketClose; reg is the registry the host shows the
\* handler, tags are the tags of the departing socket
webSocketClose(reg, tags, reason) ==
  LET clientInfo == getClientInfo(tags)
  IN  IF startsWith(reason, SESSION_CLOSED_BY_CLIENT_PREFIX) THEN <<>>
      ELSE IF clientInfo.type = PC THEN pcDisconnected(reg, clientInfo)
      ELSE IF clientInfo.type = TABLET /\ Len(getWebSockets(reg, TABLET_TYPE)) = 0
        THEN lastTabletDisconnected(reg, clientInfo)
      ELSE <<>>

\* the host's registry once a socket has closed: the socket is no longer listed
removeSocket(reg, ws) == [h \in DOMAIN reg \ {ws} |-> reg[h]]

\* the reasons a close event can carry: one that begins with the sentinel prefix
\* (as the echo of a close command's reason does) and one that does not
CloseReasons == {<<"Going away">>, <<SESSION_CLOSED_BY_CLIENT_PREFIX, " ", TABLET, " (id: ", "0", ")">>}

WebSocketClose(ws, reason) ==
  LET tags == getTags(sockets, ws)
      reg == removeSocket(sockets, ws)
      calls == webSocketClose(reg, tags, reason)
  IN  /\ ev = Idle
      /\ sockets' = reg
      /\ ev' = [op |-> "close", ws |-> ws, tags |-> tags, reason |-> reason]
      /\ closes' = calls
      /\ sent' = <<>>
      /\ response' = NoResponse
      /\ UNCHANGED <<storage, alarm, nextTabletId, newTabletToken, issued, nextHandle>>
      /\ UNCHANGED history

\* ---- alarm
\* an alarm handler that re-arms the keep-alive whatever the registry holds
runAlarmAlways(reg, store) ==
  [alarm |-> keepAliveInterval, storage |-> store]

\* an alarm handler that cleans up whatever the registry holds
runAlarmExpire(reg, store) ==
  [alarm |-> NoAlarm, storage |-> storageDelete(store, TABLET_CONNECTION_TOKEN)]

\* an alarm handler that leaves the token in the store when the registry is empty
runAlarmForget(reg, store) ==
  IF Len(getWebSockets(reg, NoTag)) > 0
  THEN [alarm |-> keepAliveInterval, storage |-> store]
  ELSE [alarm |-> NoAlarm, storage |-> store]

\* an alarm handler that does not arm the keep-alive again
runAlarmLapse(reg, store) ==
  IF Len(getWebSockets(reg, NoTag)) > 0
  THEN [alarm |-> NoAlarm, storage |-> store]
  ELSE [alarm |-> NoAlarm, storage |-> storageDelete(store, TABLET_CONNECTION_TOKEN)]

\* alarm(): the alarm armed and the store when the handler is done; the alarm
\* that fired is no longer armed when the handler starts
runAlarm(reg, store) ==
  IF Len(getWebSockets(reg, NoTag)) > 0
  THEN [alarm |-> keepAliveInterval, storage |-> store]
  ELSE [alarm |-> NoAlarm, storage |-> storageDelete(store, TABLET_CONNECTION_TOKEN)]

\* the armed alarm fires: the host disarms it and runs alarm()
Alarm ==
  /\ ev = Idle
  /\ alarm # NoAlarm
  /\ alarm' = runAlarm(sockets, storage).alarm
  /\ storage' = runAlarm(sockets, storage).storage
  /\ ev' = [op |-> "alarm"]
  /\ sent' = <<>>
  /\ closes' = <<>>
  /\ response' = NoResponse
  /\ UNCHANGED <<sockets, nextTabletId, newTabletToken, issued, nextHandle>>
  /\ UNCHANGED history

\* ---- the host evicts the actor; the constructor runs again before the next event
Restart ==
  /\ ev = Idle
  /\ nextTabletId' = undefined
  /\ newTabletToken' = undefined
  /\ ev' = [op |-> "restart"]
  /\ sent' = <<>>
  /\ closes' = <<>>
  /\ response' = NoResponse
  /\ UNCHANGED <<storage, alarm, sockets, issued, nextHandle>>
  /\ UNCHANGED history

\* the host has flushed what the handler emitted and takes the next event
Return ==
  /\ ev # Idle
  /\ ev' = Idle
  /\ sent' = <<>>
  /\ closes' = <<>>
  /\ response' = NoResponse
  /\ UNCHANGED <<storage, alarm, sockets, nextTabletId, newTabletToken, issued, nextHandle>>
  /\ UNCHANGED history

\* the close events to come are followed only where the cascade is looked at,
\* the awaits of a handshake only where overlapping handshakes are
Untracked == UNCHANGED <<closing, handlers>>

\* the last segment of a request's path
PathEnds == {CONNECT, JOIN, "other"}

\* ---- the session: every handler, with every frame of Messages
Next ==
  \/ \E b \in PostBodies : Initiate(b[1], b[2]) /\ Untracked
  \/ \E pathEnd \in PathEnds : FetchNoUpgrade(pathEnd) /\ Untracked
  \/ \E t \in ConnectTokens : FetchConnect(t) /\ Untracked
  \/ \E t \in JoinTokens : FetchJoin(t) /\ Untracked
  \/ FetchOther /\ Untracked
  \/ \E ws \in DOMAIN sockets, message \in Messages : WebSocketMessage(ws, message) /\ Untracked
  \/ \E ws \in DOMAIN sockets, reason \in CloseReasons : WebSocketClose(ws, reason) /\ Untracked
  \/ Alarm /\ Untracked
  \/ Restart /\ Untracked
  \/ Return /\ Untracked

Spec == Init /\ [][Next]_vars

\* ---- the actor called directly: a POST at any point of the session, and the
\* handlers that change what a POST must overwrite or leave alone
NextAnyPost ==
  \/ \E b \in PostBodies : FetchPost(b[1], b[2]) /\ Untracked
  \/ \E t \in ConnectTokens : FetchConnect(t) /\ Untracked
  \/ \E t \in JoinTokens : FetchJoin(t) /\ Untracked
  \/ FetchOther /\ Untracked
  \/ \E ws \in DOMAIN sockets, reason \in CloseReasons : WebSocketClose(ws, reason) /\ Untracked
  \/ Alarm /\ Untracked
  \/ Restart /\ Untracked
  \/ Return /\ Untracked

SpecAnyPost == Init /\ [][NextAnyPost]_vars

\* ---- the session with the host's scheduling: an armed alarm fires, however
\* many other events the session receives, and a handler that has begun returns
SpecFair == Spec /\ SF_vars(Alarm /\ Untracked) /\ WF_vars(Return /\ Untracked)

\* ---- the store fails: a storage call of a handler rejects
\* the storage calls of an upgrade request, by the last segment of its path
Calls(pathEnd) ==
  CASE pathEnd = CONNECT -> {"getCounter", "getPcToken"}
    [] pathEnd = JOIN -> {"getCounter", "getTabletToken", "deleteAlarm", "setAlarm",
                          "putCounter", "putToken"}
    [] OTHER -> {"getCounter"}

\* fetch, upgrade request during which the storage call `call` throws: what the
\* handler did before the call stays done, the catch block answers
FetchStoreFails(pathEnd, token, call) ==
  LET created == call # "getCounter"
      server == IF created THEN newServer(nextHandle) ELSE 0
      id == getNextTabletId(storage)
      fresh == getNewToken(issued)
      reached == CASE call = "getCounter" -> TRUE
                   [] call = "getPcToken" -> ~enforceSingleton(sockets, PC)
                   [] call = "getTabletToken" -> TRUE
                   [] OTHER -> join(storage, token) = "ok"
  IN  /\ ev = Idle
      /\ call \in Calls(pathEnd)
      /\ reached
      /\ created => server # 0
      /\ ev' = [op |-> "fetch", method |-> "GET", upgrade |-> TRUE, pathEnd |-> pathEnd,
                token |-> token, server |-> server, fresh |-> nextTabletId = undefined,
                threw |-> call]
      /\ nextTabletId' = CASE call = "getCounter" -> nextTabletId
                            [] call \in {"putCounter", "putToken"} -> id + 1
                            [] OTHER -> id
      /\ alarm' = CASE call = "setAlarm" -> NoAlarm
                     [] call \in {"putCounter", "putToken"} -> joinAlarm(alarm)
                     [] OTHER -> alarm
      /\ IF call = "putToken"
         THEN /\ issued < MaxJoins
              /\ storage' = storagePut(storage, TABLET_ID_COUNTER, id + 1)
              /\ newTabletToken' = fresh
              /\ issued' = issued + 1
         ELSE UNCHANGED <<storage, newTabletToken, issued>>
      /\ Reject("Error", server, <<>>)
      /\ UNCHANGED history

\* an alarm handler without its try and catch: the error leaves the handler
runAlarmUncaught(reg, store) ==
  [alarm |-> NoAlarm, storage |-> store, thrown |-> TRUE]

\* alarm() when the storage call it makes throws (setAlarm with sockets
\* registered, delete with none): the catch block logs the error, the alarm
\* that fired is not armed again and the store is as it was
runAlarmStoreFails(reg, store) ==
  [alarm |-> NoAlarm, storage |-> store, thrown |-> FALSE]

\* the armed alarm fires and the storage call of alarm() throws
AlarmStoreFails ==
  /\ ev = Idle
  /\ alarm # NoAlarm
  /\ alarm' = runAlarmStoreFails(sockets, storage).alarm
  /\ storage' = runAlarmStoreFails(sockets, storage).storage
  /\ ev' = [op |-> "alarm", threw |-> IF DOMAIN sockets # {} THEN "setAlarm" ELSE "delete",
            thrown |-> runAlarmStoreFails(sockets, storage).thrown]
  /\ sent' = <<>>
  /\ closes' = <<>>
  /\ response' = NoResponse
  /\ UNCHANGED <<sockets, nextTabletId, newTabletToken, issued, nextHandle>>
  /\ UNCHANGED history

\* the session on a store that may fail: the handshakes, the close events and
\* the alarm, each storage call of a handshake or of the alarm free to throw
NextStoreFails ==
  \/ \E b \in PostBodies : Initiate(b[1], b[2]) /\ Untracked
  \/ \E t \in ConnectTokens : FetchConnect(t) /\ Untracked
  \/ \E t \in JoinTokens : FetchJoin(t) /\ Untracked
  \/ FetchOther /\ Untracked
  \/ \E t \in ConnectTokens, call \in Calls(CONNECT) : FetchStoreFails(CONNECT, t, call) /\ Untracked
  \/ \E t \in JoinTokens, call \in Calls(JOIN) : FetchStoreFails(JOIN, t, call) /\ Untracked
  \/ FetchStoreFails("other", null, "getCounter") /\ Untracked
  \/ \E ws \in DOMAIN sockets, reason \in CloseReasons : WebSocketClose(ws, reason) /\ Untracked
  \/ Alarm /\ Untracked
  \/ AlarmStoreFails /\ Untracked
  \/ Restart /\ Untracked
  \/ Return /\ Untracked

SpecStoreFails == Init /\ [][NextStoreFails]_vars

\* ---- the cascade: the close events the actor's own close calls bring about
\* the close events to come once a handler has made the close calls `calls` and
\* left the registry `reg`: a socket closed by the actor sends its close event
\* with the reason of the call (the first call, if it is closed again)
track(pending, calls, reg) ==
  LET called == {calls[i].sock : i \in 1..Len(calls)} \cap DOMAIN reg
      first(h) == CHOOSE i \in 1..Len(calls) :
                    calls[i].sock = h /\ \A j \in 1..(i - 1) : calls[j].sock # h
  IN  [h \in (DOMAIN pending \cap DOMAIN reg) \cup called |->
         IF h \in DOMAIN pending THEN pending[h] ELSE calls[first(h)].reason]

Tracked ==
  /\ closing' = track(closing, closes', sockets')
  /\ UNCHANGED handlers

\* no close event is to come
Quiet == closing = <<>>

\* the close event of a socket the actor closed: it carries the actor's reason
CloseEcho(ws) ==
  /\ ws \in DOMAIN closing
  /\ WebSocketClose(ws, closing[ws])

\* the close event of a socket that goes away by itself
Disconnect(ws) ==
  /\ ws \notin DOMAIN closing
  /\ WebSocketClose(ws, <<"Going away">>)

\* a frame with the close command
CloseCommand(ws) ==
  WebSocketMessage(ws, [json |-> TRUE, data |-> [payload |-> [command |-> CLOSE_CMD]]])

\* the frames that arrive while close events are followed: a ping and a
\* payload for the tablets
CascadeFrames ==
  {[json |-> TRUE, data |-> d] : d \in
     {[type |-> "ping"], [to |-> [type |-> TABLET], payload |-> Payload]}}

\* a frame that makes the handler close nothing
OtherFrame(ws, message) ==
  /\ webSocketMessage(sockets, ws, message).closes = <<>>
  /\ WebSocketMessage(ws, message)

\* the session with its close events followed: a disconnect or a close command
\* starts a cascade, and until its close events have all come in, no
\* handshake and no other event is taken
NextCascade ==
  \/ Quiet /\ \E b \in PostBodies : Initiate(b[1], b[2]) /\ Tracked
  \/ Quiet /\ \E t \in ConnectTokens : FetchConnect(t) /\ Tracked
  \/ Quiet /\ \E t \in JoinTokens : FetchJoin(t) /\ Tracked
  \/ Quiet /\ FetchOther /\ Tracked
  \/ Quiet /\ \E ws \in DOMAIN sockets : Disconnect(ws) /\ Tracked
  \/ Quiet /\ \E ws \in DOMAIN sockets : CloseCommand(ws) /\ Tracked
  \/ \E ws \in DOMAIN sockets : CloseEcho(ws) /\ Tracked
  \/ \E ws \in DOMAIN sockets, m \in CascadeFrames : OtherFrame(ws, m) /\ Tracked
  \/ Alarm /\ Tracked
  \/ Return /\ Tracked

\* a close event that is to come does come, whatever else arrives meanwhile,
\* and a handler returns
SpecCascade ==
  /\ Init /\ [][NextCascade]_vars
  /\ SF_vars(\E ws \in DOMAIN sockets : CloseEcho(ws) /\ Tracked)
  /\ WF_vars(Return /\ Tracked)

\* the same session when handshakes are taken while close events are to come
NextCascadeOpen ==
  \/ \E b \in PostBodies : Initiate(b[1], b[2]) /\ Tracked
  \/ \E t \in ConnectTokens : FetchConnect(t) /\ Tracked
  \/ \E t \in JoinTokens : FetchJoin(t) /\ Tracked
  \/ FetchOther /\ Tracked
  \/ Quiet /\ \E ws \in DOMAIN sockets : Disconnect(ws) /\ Tracked
  \/ Quiet /\ \E ws \in DOMAIN sockets : CloseCommand(ws) /\ Tracked
  \/ \E ws \in DOMAIN sockets : CloseEcho(ws) /\ Tracked
  \/ \E ws \in DOMAIN sockets, m \in CascadeFrames : OtherFrame(ws, m) /\ Tracked
  \/ Alarm /\ Tracked
  \/ Return /\ Tracked

SpecCascadeOpen == Init /\ [][NextCascadeOpen]_vars

\* ---- overlapping handshakes: fetch followed from await to await
\* a connect() whose token comes from elsewhere than the durable store
StorageAwaitsNoPcToken ==
  {"getCounter", "getTabletToken", "deleteAlarm", "setAlarm", "putCounter", "putToken"}

\* a join() whose alarm is set elsewhere than in the durable store
StorageAwaitsNoAlarm ==
  {"getCounter", "getPcToken", "getTabletToken", "putCounter", "putToken"}

\* the awaits of a handshake that wait for nothing but the durable store:
\* getNextTabletId, the two token reads, deleteAlarm, setAlarm and the two puts
StorageAwaits ==
  {"getCounter", "getPcToken", "getTabletToken", "deleteAlarm", "setAlarm",
   "putCounter", "putToken"}

\* every await of a handshake
Awaits ==
  {"getCounter", "getPcToken", "getTabletToken", "deleteAlarm", "setAlarm",
   "putCounter", "putToken"}

\* the host delivers no event to the session while a handler of the session
\* waits for the durable store; an event that arrives meanwhile waits
GateOpen(hs) == \A i \in 1..Len(hs) : hs[i].at \notin StorageAwaits

\* no handshake is waiting or under way
Calm == \A i \in 1..Len(handlers) : handlers[i].at = "done"

Max(S) == CHOOSE x \in S : \A y \in S : y <= x

\* the server half of a new WebSocketPair while other pairs are held by
\* handshakes under way (0 when the model's bound on socket pairs is reached)
newServerAmong(n, reg, hs) ==
  LET held == {n} \cup DOMAIN reg \cup {hs[i].server : i \in 1..Len(hs)}
  IN  IF Max(held) < MaxSockets THEN Max(held) + 1 ELSE 0

\* handshake i has come to the await `at`
frameAt(hs, i, at) == [hs EXCEPT ![i].at = at]

\* an upgrade request reaches the session; it is dispatched when the gate opens
Arrive(pathEnd, token) ==
  /\ Len(handlers) < MaxRequests
  /\ handlers' = Append(handlers,
       [pathEnd |-> pathEnd, token |-> token, at |-> "arrived", server |-> 0,
        clientId |-> null, fresh |-> null, status |-> 0,
        during |-> {<<j, handlers[j].at>> : j \in {k \in 1..Len(handlers) : handlers[k].at \in Awaits}}])
  /\ UNCHANGED <<storage, alarm, sockets, nextTabletId, newTabletToken, issued, nextHandle,
                 ev, response, sent, closes, closing>>
  /\ UNCHANGED history

\* fetch starts for the request that has waited longest: it runs up to
\* `await this.getNextTabletId()`
Dispatch(i) ==
  /\ ev = Idle
  /\ GateOpen(handlers)
  /\ handlers[i].at = "arrived"
  /\ \A j \in 1..(i - 1) : handlers[j].at # "arrived"
  /\ handlers' = frameAt(handlers, i, "getCounter")
  /\ UNCHANGED <<storage, alarm, sockets, nextTabletId, newTabletToken, issued, nextHandle,
                 ev, response, sent, closes, closing>>
  /\ UNCHANGED history

\* a handler that waits for the store goes on when the store is done; one that
\* waits for something else goes on when the gate is open
MayResume(i) ==
  /\ ev = Idle
  /\ handlers[i].at \in Awaits
  /\ handlers[i].at \in StorageAwaits \/ GateOpen(handlers)

\* a handshake step that ends in the catch block
Thrown(i, e, server, message) ==
  /\ Reject(e, server, message)
  /\ ev' = FetchEvent("GET", TRUE, handlers[i].pathEnd, handlers[i].token, server)
  /\ handlers' = [handlers EXCEPT ![i].at = "done", ![i].server = 0,
                                  ![i].status = catchResponse(e, message).status]

\* from getNextTabletId to the next await: the pair is created, and connect()
\* makes its singleton check and asks for the stored token, join() asks for its
\* stored token
AfterGetCounter(i) ==
  LET h == handlers[i]
      server == newServerAmong(nextHandle, sockets, handlers)
  IN  /\ MayResume(i)
      /\ h.at = "getCounter"
      /\ server # 0
      /\ nextTabletId' = getNextTabletId(storage)
      /\ IF h.pathEnd = CONNECT /\ enforceSingleton(sockets, PC)
         THEN Thrown(i, "SingletonViolation", server, SingletonMessage(PC))
         ELSE /\ handlers' = [handlers EXCEPT ![i].server = server,
                   ![i].at = IF h.pathEnd = CONNECT THEN "getPcToken" ELSE "getTabletToken"]
              /\ UNCHANGED <<sockets, nextHandle, ev, response, sent, closes>>
      /\ UNCHANGED <<storage, alarm, newTabletToken, issued, closing>>
      /\ UNCHANGED history

\* connect() from its token read to the end of fetch
AfterGetPcToken(i) ==
  LET h == handlers[i]
  IN  /\ MayResume(i)
      /\ h.at = "getPcToken"
      /\ IF h.token # storageGet(storage, PC_CONNECTION_TOKEN)
         THEN Thrown(i, "TokenError", h.server, <<INVALID_TOKEN>>)
         ELSE /\ Accept(h.server, PC, 0, newTabletToken, <<>>)
              /\ ev' = FetchEvent("GET", TRUE, CONNECT, h.token, h.server)
              /\ handlers' = [handlers EXCEPT ![i].at = "done", ![i].clientId = 0,
                                              ![i].status = SWITCHING_PROTOCOLS]
      /\ UNCHANGED <<storage, alarm, nextTabletId, newTabletToken, issued, closing>>
      /\ UNCHANGED history

\* join() from its token read to deleteAlarm()
AfterGetTabletToken(i) ==
  LET h == handlers[i]
      ahead == {j \in 1..Len(handlers) :
                  handlers[j].at \in {"deleteAlarm", "setAlarm", "putCounter"}}
  IN  /\ MayResume(i)
      /\ h.at = "getTabletToken"
      /\ IF join(storage, h.token) # "ok"
         THEN Thrown(i, "TokenError", h.server, <<INVALID_TOKEN>>)
         ELSE /\ issued + Cardinality(ahead) < MaxJoins
              /\ handlers' = frameAt(handlers, i, "deleteAlarm")
              /\ UNCHANGED <<sockets, nextHandle, ev, response, sent, closes>>
      /\ UNCHANGED <<storage, alarm, nextTabletId, newTabletToken, issued, closing>>
      /\ UNCHANGED history

\* join(): deleteAlarm() is done, setAlarm() is called
AfterDeleteAlarm(i) ==
  /\ MayResume(i)
  /\ handlers[i].at = "deleteAlarm"
  /\ alarm' = NoAlarm
  /\ handlers' = frameAt(handlers, i, "setAlarm")
  /\ UNCHANGED <<storage, sockets, nextTabletId, newTabletToken, issued, nextHandle,
                 ev, response, sent, closes, closing>>
  /\ UNCHANGED history

\* join(): setAlarm() is done; clientId = this.nextTabletId++, and the counter
\* is put
AfterSetAlarm(i) ==
  /\ MayResume(i)
  /\ handlers[i].at = "setAlarm"
  /\ alarm' = joinAlarm(alarm)
  /\ nextTabletId' = nextTabletId + 1
  /\ handlers' = [handlers EXCEPT ![i].at = "putCounter", ![i].clientId = nextTabletId]
  /\ UNCHANGED <<storage, sockets, newTabletToken, issued, nextHandle,
                 ev, response, sent, closes, closing>>
  /\ UNCHANGED history

\* join(): the counter is stored; this.newTabletToken = getNewToken(), and the
\* token is put
AfterPutCounter(i) ==
  LET h == handlers[i]
      fresh == getNewToken(issued)
  IN  /\ MayResume(i)
      /\ h.at = "putCounter"
      /\ storage' = storagePut(storage, TABLET_ID_COUNTER, h.clientId + 1)
      /\ newTabletToken' = fresh
      /\ issued' = issued + 1
      /\ handlers' = [handlers EXCEPT ![i].at = "putToken", ![i].fresh = fresh]
      /\ UNCHANGED <<alarm, sockets, nextTabletId, nextHandle,
                     ev, response, sent, closes, closing>>
      /\ UNCHANGED history

\* join(): the token is stored; the pc sockets are told, and fetch accepts the
\* socket, welcomes it and answers 101
AfterPutToken(i) ==
  LET h == handlers[i]
      pcs == getWebSockets(sockets, PC_TYPE)
  IN  /\ MayResume(i)
      /\ h.at = "putToken"
      /\ storage' = storagePut(storage, TABLET_CONNECTION_TOKEN, h.fresh)
      /\ Accept(h.server, TABLET, h.clientId, newTabletToken,
                [k \in 1..Len(pcs) |->
                   [to |-> pcs[k], frame |-> tabletConnected(h.clientId, newTabletToken)]])
      /\ ev' = FetchEvent("GET", TRUE, JOIN, h.token, h.server)
      /\ handlers' = [handlers EXCEPT ![i].at = "done", ![i].status = SWITCHING_PROTOCOLS]
      /\ usedTokens' = usedTokens \cup {h.token}
      /\ assigned' = Append(assigned, h.clientId)
      /\ UNCHANGED <<alarm, nextTabletId, newTabletToken, issued, closing>>

\* the session with its handshakes followed await by await; a session is
\* created and a socket goes away between handshakes
NextOverlap ==
  \/ Calm /\ \E b \in PostBodies : Initiate(b[1], b[2]) /\ Untracked
  \/ \E t \in ConnectTokens : Arrive(CONNECT, t)
  \/ \E t \in JoinTokens : Arrive(JOIN, t)
  \/ \E i \in 1..Len(handlers) : Dispatch(i)
  \/ \E i \in 1..Len(handlers) : AfterGetCounter(i)
  \/ \E i \in 1..Len(handlers) : AfterGetPcToken(i)
  \/ \E i \in 1..Len(handlers) : AfterGetTabletToken(i)
  \/ \E i \in 1..Len(handlers) : AfterDeleteAlarm(i)
  \/ \E i \in 1..Len(handlers) : AfterSetAlarm(i)
  \/ \E i \in 1..Len(handlers) : AfterPutCounter(i)
  \/ \E i \in 1..Len(handlers) : AfterPutToken(i)
  \/ Calm /\ \E ws \in DOMAIN sockets : WebSocketClose(ws, <<"Going away">>) /\ Untracked
  \/ Return /\ Untracked

SpecOverlap == Init /\ [][NextOverlap]_vars

\* the tags a registered socket was accepted with
typeTag(h) == sockets[h][1][2]
idTag(h) == sockets[h][2][2]
socketsOfType(type) == {h \in DOMAIN sockets : typeTag(h) = type}

\* the event handled last is an upgrade request whose path ends in pathEnd
IsHandshake(pathEnd) == ev.op = "fetch" /\ ev.upgrade /\ ev.pathEnd = pathEnd

\* the event handled last is a frame that parses and is not a ping
IsFrame == ev.op = "message" /\ ev.message.json /\ "type" \notin DOMAIN ev.message.data
IsCommand(command) ==
  /\ IsFrame
  /\ "payload" \in DOMAIN ev.message.data
  /\ "command" \in DOMAIN ev.message.data.payload
  /\ ev.message.data.payload.command = command
\* ... a relay message: no command, a recipient and a payload
IsRelay ==
  /\ IsFrame
  /\ "payload" \in DOMAIN ev.message.data
  /\ "command" \notin DOMAIN ev.message.data.payload
  /\ "to" \in DOMAIN ev.message.data
IsPrivate == IsRelay /\ "id" \in DOMAIN ev.message.data.to
IsPublic == IsRelay /\ "id" \notin DOMAIN ev.message.data.to

\* the sockets a handler's calls were made on
Receivers == {sent[i].to : i \in 1..Len(sent)}
Closed == {closes[i].sock : i \in 1..Len(closes)}

\* the event handled last is the close event of a socket of the given type,
\* with a reason that does not begin with the sentinel prefix
IsDisconnect(type) ==
  /\ ev.op = "close"
  /\ ev.tags[1][2] = type
  /\ ev.reason[1] # SESSION_CLOSED_BY_CLIENT_PREFIX

\* C1: at most one registered socket carries the pc tag, and a connect handshake
\* that arrives while a pc socket is registered is answered 409 and its server
\* socket is not accepted into the registry.
C1_SingleController ==
  /\ Cardinality(socketsOfType(PC)) <= 1
  /\ (IsHandshake(CONNECT) /\ socketsOfType(PC) \ {ev.server} # {})
       => (response.status = CONFLICT /\ ev.server \notin DOMAIN sockets)

\* a connect presenting the stored pc token is answered 409: a pc is registered
C1_Witness ==
  /\ IsHandshake(CONNECT)
  /\ ev.token = storageGet(storage, PC_CONNECTION_TOKEN)
  /\ socketsOfType(PC) # {}
  /\ response.status = CONFLICT

\* C2: a join presenting a token an earlier join succeeded with is answered 403,
\* and a join succeeds only with the tablet token the store holds when it arrives.
C2_TokenRotation ==
  [][(ev'.op = "fetch" /\ ev'.upgrade /\ ev'.pathEnd = JOIN)
       => /\ (ev'.token \in usedTokens => response'.status = FORBIDDEN)
          /\ (response'.status = SWITCHING_PROTOCOLS
                => ev'.token = storageGet(storage, TABLET_CONNECTION_TOKEN))]_vars

\* after two joins, the second with a rotated token, a join presents a used
\* token and is answered 403
C2_Witness ==
  /\ IsHandshake(JOIN)
  /\ ev.token \in usedTokens
  /\ response.status = FORBIDDEN
  /\ Len(assigned) = 2
  /\ usedTokens \cap 1..MaxJoins # {}

\* C3: the ids given to tablets by the successive joins are strictly increasing
\* (so none is given twice), restarts included, and the stored counter is above
\* every id given.
C3_IdsIncrease ==
  /\ \A i, j \in 1..Len(assigned) : i < j => assigned[i] < assigned[j]
  /\ assigned # <<>> =>
       /\ TABLET_ID_COUNTER \in DOMAIN storage
       /\ storage[TABLET_ID_COUNTER] > assigned[Len(assigned)]

\* a second join succeeds on an actor whose memory was lost since the first
C3_Witness ==
  /\ IsHandshake(JOIN)
  /\ response.status = SWITCHING_PROTOCOLS
  /\ ev.fresh
  /\ Len(assigned) = 2

\* C4: a connect or join that fails its token or singleton check is answered
\* 403 or 409 and closes the server socket of its pair with the policy-violation
\* code and the failure message as the reason.
C4_FailedHandshakeCloses ==
  ((IsHandshake(CONNECT) \/ IsHandshake(JOIN)) /\ response.status # SWITCHING_PROTOCOLS)
    => /\ response.status \in {FORBIDDEN, CONFLICT}
       /\ closes = <<[sock |-> ev.server, code |-> POLICY_VIOLATION, reason |-> response.body]>>

\* the registered sockets whose tags match both the type and the id of the
\* recipient of the frame handled last
Addressees ==
  {h \in DOMAIN sockets : /\ typeTag(h) = ev.message.data.to.type
                           /\ idTag(h) = Str(ev.message.data.to.id)}

\* C5: a relay message whose recipient has a type and an id is sent to exactly
\* one socket, one whose tags match both, and to no other socket; to nobody when
\* no socket matches. A pc or tablet recipient is matched by at most one socket,
\* so pc 0 and tablet 0 are told apart.
C5_PrivateRelay ==
  IsPrivate =>
    /\ (ev.message.data.to.type \in {PC, TABLET} => Cardinality(Addressees) <= 1)
    /\ IF Addressees = {} THEN sent = <<>>
       ELSE /\ Len(sent) = 1
            /\ sent[1].to \in Addressees
            /\ sent[1].frame.payload = ev.message.data.payload

\* pc 0 and tablet 0 are both registered, with the pc accepted first, and a
\* frame to tablet 0 reaches the tablet
C5_Witness ==
  /\ IsPrivate
  /\ ev.message.data.to = [type |-> TABLET, id |-> 0]
  /\ \E c, t \in DOMAIN sockets :
       /\ c < t
       /\ typeTag(c) = PC /\ idTag(c) = "0"
       /\ typeTag(t) = TABLET /\ idTag(t) = "0"
       /\ Receivers = {t}

\* C6: a relay message whose recipient has a type and no id is sent once to
\* every socket registered with that type other than the sender, and to no other
\* socket: never to the sender, never to a socket of another type.
C6_PublicRelay ==
  IsPublic =>
    /\ Receivers = socketsOfType(ev.message.data.to.type) \ {ev.ws}
    /\ Len(sent) = Cardinality(Receivers)
    /\ \A i \in 1..Len(sent) : sent[i].frame.payload = ev.message.data.payload

\* a tablet addresses the tablets while another tablet and a pc are registered
C6_Witness ==
  /\ IsPublic
  /\ ev.message.data.to.type = TABLET
  /\ typeTag(ev.ws) = TABLET
  /\ Receivers # {}
  /\ socketsOfType(PC) # {}

\* `${id}` of the id getClientInfo reads from a socket's tags: the digits of a
\* pc or tablet id, NaN for the id:null tag of an unknown socket
idText(tags) == IF tags[1][2] \in {PC, TABLET} THEN tags[2][2] ELSE "NaN"

\* C7: a frame with payload.command = close, from a socket of any type, closes
\* every registered socket, the sender included, with the normal-closure code and
\* the reason "<prefix> <sender type> (id: <sender id>)", and sends no frame.
C7_CloseCommand ==
  IsCommand(CLOSE_CMD) =>
    /\ sent = <<>>
    /\ Closed = DOMAIN sockets
    /\ Len(closes) = Cardinality(DOMAIN sockets)
    /\ \A i \in 1..Len(closes) :
         /\ closes[i].code = NORMAL_CLOSURE
         /\ closes[i].reason = <<SESSION_CLOSED_BY_CLIENT_PREFIX, " ", typeTag(ev.ws),
                                 " (id: ", idText(sockets[ev.ws]), ")">>

\* a tablet sends the close command while a pc and an unknown socket are registered
C7_Witness ==
  /\ IsCommand(CLOSE_CMD)
  /\ typeTag(ev.ws) = TABLET
  /\ socketsOfType(PC) # {}
  /\ socketsOfType(UNKNOWN) # {}
  /\ ev.ws \in Closed

\* C8: the close event of a pc socket whose reason does not begin with the
\* sentinel prefix closes every registered tablet socket, once, with the
\* normal-closure code and the reason "pc (id: <id>) disconnected".
C8_ControllerDisconnect ==
  IsDisconnect(PC) =>
    /\ Closed = socketsOfType(TABLET)
    /\ Len(closes) = Cardinality(socketsOfType(TABLET))
    /\ \A i \in 1..Len(closes) :
         /\ closes[i].code = NORMAL_CLOSURE
         /\ closes[i].reason = <<PC, " (id: ", ev.tags[2][2], ") disconnected">>

\* the pc leaves while two tablets are registered
C8_Witness ==
  /\ IsDisconnect(PC)
  /\ Cardinality(socketsOfType(TABLET)) = 2
  /\ Len(closes) = 2

\* C9: the close event of a tablet socket whose reason does not begin with the
\* sentinel prefix, when no tablet socket is registered once the departing one is
\* removed, closes every registered pc socket with the normal-closure code and
\* the reason "Last tablet disconnected (was id: <id>)".
C9_LastSatelliteDisconnect ==
  (IsDisconnect(TABLET) /\ socketsOfType(TABLET) = {}) =>
    /\ Closed = socketsOfType(PC)
    /\ Len(closes) = Cardinality(socketsOfType(PC))
    /\ \A i \in 1..Len(closes) :
         /\ closes[i].code = NORMAL_CLOSURE
         /\ closes[i].reason = <<LAST_TABLET_DISCONNECTED, " (was id: ", ev.tags[2][2], ")">>

\* the second tablet of the session (id 1) is the last to leave; a pc is registered
C9_Witness ==
  /\ IsDisconnect(TABLET)
  /\ ev.tags[2][2] = "1"
  /\ socketsOfType(TABLET) = {}
  /\ Len(closes) = 1

\* C10: the close event of a tablet socket while another tablet socket is
\* registered, and the close event of an unknown socket, close no socket: the
\* other sockets stay registered with their tags, and the store and the alarm
\* are unchanged.
C10_NoCascade ==
  [][(/\ ev'.op = "close"
      /\ \/ ev'.tags[1][2] = TABLET /\ (\E h \in DOMAIN sockets \ {ev'.ws} : typeTag(h) = TABLET)
         \/ ev'.tags[1][2] = UNKNOWN)
       => /\ closes' = <<>>
          /\ sockets' = [h \in DOMAIN sockets \ {ev'.ws} |-> sockets[h]]
          /\ storage' = storage
          /\ alarm' = alarm]_vars

\* a tablet leaves, with a reason that is not the sentinel's, while a pc and
\* another tablet are registered
C10_Witness ==
  /\ IsDisconnect(TABLET)
  /\ socketsOfType(TABLET) # {}
  /\ socketsOfType(PC) # {}
  /\ closes = <<>>

\* C11: when the alarm fires and no socket is registered, the stored tablet
\* token is deleted and no alarm is armed when the handler is done.
C11_AlarmExpires ==
  (ev.op = "alarm" /\ sockets = <<>>)
    => (TABLET_CONNECTION_TOKEN \notin DOMAIN storage /\ alarm = NoAlarm)

\* the keep-alive alarm fires after a tablet joined and every socket has gone
C11_Witness ==
  /\ ev.op = "alarm"
  /\ sockets = <<>>
  /\ assigned # <<>>
  /\ PC_CONNECTION_TOKEN \in DOMAIN storage
  /\ TABLET_CONNECTION_TOKEN \notin DOMAIN storage

\* C12: when the alarm fires and a socket of any type is registered, the
\* keep-alive alarm is armed again and the store (both tokens, the id counter)
\* and the registry are as they were.
C12_AlarmKeepsAlive ==
  [][(ev'.op = "alarm" /\ sockets # <<>>)
       => /\ alarm' = keepAliveInterval
          /\ storage' = storage
          /\ sockets' = sockets]_vars

\* the expiry alarm fires while the only socket registered is an unknown one
C12_Witness ==
  /\ ev.op = "alarm"
  /\ sockets # <<>>
  /\ socketsOfType(UNKNOWN) = DOMAIN sockets
  /\ TABLET_CONNECTION_TOKEN \in DOMAIN storage
  /\ alarm = keepAliveInterval

\* the event handled last is a handshake that was accepted
IsAccepted(pathEnd) == IsHandshake(pathEnd) /\ response.status = SWITCHING_PROTOCOLS

\* the positions in sent of the tablet_connected frames
Notifications == {i \in 1..Len(sent) : sent[i].frame.type = TABLET_CONNECTED}

\* C13: on a successful join every registered pc socket is sent exactly one
\* tablet_connected frame, whose id is the id given to the joining tablet and
\* whose token is the tablet token the store holds after the join; no tablet or
\* unknown socket is sent that frame.
C13_JoinNotifies ==
  IsAccepted(JOIN) =>
    /\ {sent[i].to : i \in Notifications} = socketsOfType(PC)
    /\ Cardinality(Notifications) = Cardinality(socketsOfType(PC))
    /\ \A i \in Notifications :
         /\ sent[i].frame.id = assigned[Len(assigned)]
         /\ Str(sent[i].frame.id) = idTag(ev.server)
         /\ sent[i].frame.newTabletToken = storage[TABLET_CONNECTION_TOKEN]

\* the second tablet joins while a pc and the first tablet are registered
C13_Witness ==
  /\ IsAccepted(JOIN)
  /\ Len(assigned) = 2
  /\ socketsOfType(PC) # {}
  /\ Cardinality(socketsOfType(TABLET)) = 2
  /\ Notifications # {}

\* the positions in sent of the frames sent to the socket the handshake accepted
Welcomes == {i \in 1..Len(sent) : sent[i].to = ev.server}

\* C14: an accepted handshake sends the accepted socket exactly one frame, the
\* welcome frame, made of exactly the fields clientType, id, type = system and
\* message = "Connection established", clientType and id being those of the
\* socket's tags; the response is 101 with the client half of the pair.
C14_WelcomeFrame ==
  (ev.op = "fetch" /\ ev.upgrade /\ response.status = SWITCHING_PROTOCOLS) =>
    /\ Cardinality(Welcomes) = 1
    /\ \A i \in Welcomes :
         /\ DOMAIN sent[i].frame = {"clientType", "id", "type", "message"}
         /\ sent[i].frame.clientType = typeTag(ev.server)
         /\ Str(sent[i].frame.id) = idTag(ev.server)
         /\ sent[i].frame.type = SYSTEM
         /\ sent[i].frame.message = CONNECTION_ESTABLISHED
    /\ response.webSocket = ev.server

\* C15: every frame sent for a relay message {to, payload: P} has P's own
\* fields and a field from, which is the type and id of the sender's tags
\* whatever the message says.
C15_RelayedFrame ==
  IsRelay =>
    \A i \in 1..Len(sent) :
      /\ DOMAIN sent[i].frame = DOMAIN ev.message.data.payload \cup {"from"}
      /\ \A k \in DOMAIN ev.message.data.payload :
           sent[i].frame[k] = ev.message.data.payload[k]
      /\ sent[i].frame.from.type = typeTag(ev.ws)
      /\ Str(sent[i].frame.from.id) = idTag(ev.ws)

\* C16: a successful join cancels the alarm that is armed and arms the
\* keep-alive alarm: when the handshake is done the one alarm of the session is
\* the keep-alive one.
C16_JoinArmsKeepAlive ==
  IsAccepted(JOIN) => alarm = keepAliveInterval

\* the join is the first handshake the session accepts: the alarm it found
\* armed was the expiry alarm of the initialization
C16_Witness ==
  /\ IsAccepted(JOIN)
  /\ ev.server = 1
  /\ alarm = keepAliveInterval

\* C17: an upgrade request whose path ends in neither connect nor join is
\* accepted whatever the store and the registry hold; its socket is registered
\* with the tags type:unknown and id:null, and the store (both tokens, the id
\* counter) and the alarm are as they were.
C17_OtherPath ==
  [][(ev'.op = "fetch" /\ ev'.upgrade /\ ev'.pathEnd \notin {CONNECT, JOIN})
       => /\ response'.status = SWITCHING_PROTOCOLS
          /\ ev'.server \notin DOMAIN sockets
          /\ sockets' = sockets @@ (ev'.server :> << <<TAG_TYPE, UNKNOWN>>, <<TAG_ID, "null">> >>)
          /\ storage' = storage
          /\ alarm' = alarm]_vars

\* a second unknown socket is accepted by a session that was never initialized
C17_Witness ==
  /\ IsAccepted("other")
  /\ storage = <<>>
  /\ Cardinality(socketsOfType(UNKNOWN)) = 2

\* C18: a POST with two tokens stores both under their keys, arms the expiry
\* alarm and is answered 200 with the fixed message, at whatever point of the
\* session it arrives: the tokens stored before are overwritten, the id counter
\* and the registry are as they were.
C18_Initialize ==
  [][(ev'.op = "fetch" /\ ev'.method = "POST")
       => /\ DOMAIN storage' = DOMAIN storage \cup {TABLET_CONNECTION_TOKEN, PC_CONNECTION_TOKEN}
          /\ storage'[TABLET_CONNECTION_TOKEN] = ev'.tabletConnectionToken
          /\ storage'[PC_CONNECTION_TOKEN] = ev'.pcConnectionToken
          /\ storageGet(storage', TABLET_ID_COUNTER) = storageGet(storage, TABLET_ID_COUNTER)
          /\ alarm' = sessionAlarmTime
          /\ response' = [status |-> OK, body |-> <<INITIALIZATION_SUCCESSFUL>>, webSocket |-> 0]
          /\ sockets' = sockets]_vars

\* a POST arrives after a tablet has joined with the token of an earlier POST,
\* while sockets are registered, and brings a token not used so far
C18_Witness ==
  /\ ev.op = "fetch" /\ ev.method = "POST"
  /\ assigned # <<>>
  /\ sockets # <<>>
  /\ usedTokens # {}
  /\ ev.tabletConnectionToken \notin usedTokens
  /\ storage[TABLET_CONNECTION_TOKEN] = ev.tabletConnectionToken

\* C19: a request that is not a POST and has no Upgrade: websocket header is
\* answered 426 with the fixed message; no socket pair is created, nothing is
\* registered or sent, and the store and the alarm are as they were.
C19_UpgradeRequired ==
  [][(ev'.op = "fetch" /\ ev'.method # "POST" /\ ~ev'.upgrade)
       => /\ response' = [status |-> UPGRADE_REQUIRED, body |-> <<EXPECTED_WEBSOCKET>>, webSocket |-> 0]
          /\ ev'.server = 0
          /\ nextHandle' = nextHandle
          /\ sockets' = sockets
          /\ sent' = <<>>
          /\ storage' = storage
          /\ alarm' = alarm]_vars

\* a plain GET .../join reaches an initialized session with a pc registered
C19_Witness ==
  /\ ev.op = "fetch" /\ ev.method = "GET" /\ ~ev.upgrade
  /\ ev.pathEnd = JOIN
  /\ response.status = UPGRADE_REQUIRED
  /\ socketsOfType(PC) # {}
  /\ alarm # NoAlarm

\* the event handled last is a frame that parses and has type = ping
IsPing ==
  /\ ev.op = "message" /\ ev.message.json
  /\ "type" \in DOMAIN ev.message.data
  /\ ev.message.data.type = "ping"

\* C20: a frame with type = ping is answered with one pong frame to its sender
\* and nothing else: no other frame is sent and no socket is closed, also when
\* the frame carries payload.command = close, or a recipient and a payload.
C20_Ping ==
  IsPing => (sent = <<[to |-> ev.ws, frame |-> [type |-> "pong"]]>> /\ closes = <<>>)

\* a pc sends a ping that also carries the close command while a tablet is
\* registered
C20_Witness ==
  /\ IsPing
  /\ "payload" \in DOMAIN ev.message.data
  /\ "command" \in DOMAIN ev.message.data.payload
  /\ ev.message.data.payload.command = CLOSE_CMD
  /\ typeTag(ev.ws) = PC
  /\ socketsOfType(TABLET) # {}
  /\ Receivers = {ev.ws}

\* the {type, id} entry of a registered socket in a participants list: the id
\* is the number of its id tag, null for the id:null tag of an unknown socket
entryOf(h) ==
  [type |-> typeTag(h), id |-> IF idTag(h) = "null" THEN null ELSE parseInt(idTag(h))]

\* C21: a frame with payload.command = get_participants produces exactly one
\* participants_list frame, sent to the sender and to no other socket, whose
\* participants hold one {type, id} entry for each registered socket, the
\* sender included, and no other entry; no socket is closed.
C21_Participants ==
  IsCommand(GET_PARTICIPANTS_CMD) =>
    /\ Len(sent) = 1
    /\ sent[1].to = ev.ws
    /\ sent[1].frame.type = PARTICIPANTS_LIST
    /\ Len(sent[1].frame.participants) = Cardinality(DOMAIN sockets)
    /\ \A h \in DOMAIN sockets :
         Cardinality({i \in 1..Len(sent[1].frame.participants) :
                        sent[1].frame.participants[i] = entryOf(h)})
           = Cardinality({g \in DOMAIN sockets : entryOf(g) = entryOf(h)})
    /\ closes = <<>>

\* an unknown socket asks for the participants while a pc and a second unknown
\* socket are registered
C21_Witness ==
  /\ IsCommand(GET_PARTICIPANTS_CMD)
  /\ typeTag(ev.ws) = UNKNOWN
  /\ Cardinality(socketsOfType(UNKNOWN)) = 2
  /\ socketsOfType(PC) # {}
  /\ Len(sent) = 1
  /\ Len(sent[1].frame.participants) = 3

\* the event handled last is a frame that parses, is not a ping, carries neither
\* command, and has no recipient or no payload
IsIncomplete ==
  /\ IsFrame
  /\ ~IsCommand(CLOSE_CMD)
  /\ ~IsCommand(GET_PARTICIPANTS_CMD)
  /\ ("to" \notin DOMAIN ev.message.data \/ "payload" \notin DOMAIN ev.message.data)

\* C22: a frame that is not a ping and not a command and has no recipient or no
\* payload is dropped: no frame is sent to any socket, the sender included, and
\* no socket is closed.
C22_Dropped ==
  IsIncomplete => (sent = <<>> /\ closes = <<>>)

\* a pc sends a frame addressed to the tablets, without a payload, while a tablet
\* is registered
C22_Witness ==
  /\ IsIncomplete
  /\ "to" \in DOMAIN ev.message.data
  /\ ev.message.data.to.type = TABLET
  /\ typeTag(ev.ws) = PC
  /\ socketsOfType(TABLET) # {}
  /\ sent = <<>>

\* C23: a frame that is not valid JSON is dropped: the handler sends nothing, to
\* the sender or to any other socket, closes no socket, and leaves the store,
\* the alarm and the registry as they were.
C23_InvalidJson ==
  [][(ev'.op = "message" /\ ~ev'.message.json)
       => /\ sent' = <<>>
          /\ closes' = <<>>
          /\ storage' = storage
          /\ alarm' = alarm
          /\ sockets' = sockets]_vars

\* a tablet sends a frame that does not parse while a pc is registered and the
\* keep-alive alarm is armed
C23_Witness ==
  /\ ev.op = "message"
  /\ ~ev.message.json
  /\ typeTag(ev.ws) = TABLET
  /\ socketsOfType(PC) # {}
  /\ alarm = keepAliveInterval
  /\ sent = <<>>
  /\ closes = <<>>

\* the registered sockets whose id tag is the id of the recipient of the frame
\* handled last
IdMatches == {h \in DOMAIN sockets : idTag(h) = Str(ev.message.data.to.id)}

\* C24: a relay message with a recipient id that no registered socket has, or
\* that only sockets of a type other than the recipient's type have, is
\* delivered to nobody: no frame is sent to any socket, the sender included, and
\* no socket is closed.
C24_NoRecipient ==
  (IsPrivate /\ \A h \in IdMatches : typeTag(h) # ev.message.data.to.type)
    => (sent = <<>> /\ closes = <<>>)

\* tablet 1 addresses tablet 0, which has left: the only socket with id 0 is
\* the pc
C24_Witness ==
  /\ IsPrivate
  /\ ev.message.data.to = [type |-> TABLET, id |-> 0]
  /\ IdMatches # {}
  /\ \A h \in IdMatches : typeTag(h) = PC
  /\ typeTag(ev.ws) = TABLET
  /\ idTag(ev.ws) = "1"
  /\ sent = <<>>

\* the event handled last is a close event whose reason begins with the prefix
\* of the close command's reason
IsSentinelClose ==
  /\ ev.op = "close"
  /\ Len(ev.reason) >= 1
  /\ ev.reason[1] = SESSION_CLOSED_BY_CLIENT_PREFIX

\* C25: a close event whose reason begins with the sentinel prefix makes the
\* handler close no socket and send no frame, whatever the type of the departing
\* socket: the pc's departure does not close the tablets, the last tablet's
\* departure does not close the pc.
C25_SentinelClose ==
  IsSentinelClose => (closes = <<>> /\ sent = <<>>)

\* the pc departs with the sentinel reason while a tablet is registered
C25_Witness ==
  /\ IsSentinelClose
  /\ ev.tags[1][2] = PC
  /\ socketsOfType(TABLET) # {}
  /\ closes = <<>>

\* C30: in a connect handshake the singleton check runs before the token check:
\* a connect that arrives while a pc socket is registered is answered 409
\* whether or not its token is the stored pc token, and a connect is answered
\* 403 only when no pc socket is registered and its token is not the stored one.
C30_SingletonBeforeToken ==
  [][(ev'.op = "fetch" /\ ev'.upgrade /\ ev'.pathEnd = CONNECT)
       => /\ (socketsOfType(PC) # {} => response'.status = CONFLICT)
          /\ (response'.status = FORBIDDEN
                => /\ socketsOfType(PC) = {}
                   /\ ev'.token # storageGet(storage, PC_CONNECTION_TOKEN))]_vars

\* a connect presenting a token that is not the stored pc token is answered 409:
\* a pc is registered
C30_Witness ==
  /\ IsHandshake(CONNECT)
  /\ PC_CONNECTION_TOKEN \in DOMAIN storage
  /\ ev.token # storage[PC_CONNECTION_TOKEN]
  /\ socketsOfType(PC) # {}
  /\ response.status = CONFLICT

\* C29: what the actor answers and sends for an event does not depend on its
\* memory: it is what an actor restarted just before the event, whose fields
\* hold the constructor's values, answers and sends. An accepted connect or
\* other-path handshake sends the welcome frame of an actor whose newTabletToken
\* is undefined; an accepted join gives the id the stored counter holds; a frame
\* and a close event are handled from the registry alone, an alarm from the
\* registry and the store.
C29_RestartEquivalent ==
  [][/\ IsAccepted(CONNECT)' =>
          sent' = <<[to |-> ev'.server, frame |-> welcomeMessage(PC, 0, undefined)]>>
     /\ IsAccepted("other")' =>
          sent' = <<[to |-> ev'.server, frame |-> welcomeMessage(UNKNOWN, null, undefined)]>>
     /\ IsAccepted(JOIN)' =>
          \A i \in Welcomes' :
            /\ sent'[i].frame.id = getNextTabletId(storage)
            /\ sent'[i].frame.newTabletToken = storage'[TABLET_CONNECTION_TOKEN]
     /\ ev'.op = "message" =>
          /\ sent' = webSocketMessage(sockets, ev'.ws, ev'.message).sent
          /\ closes' = webSocketMessage(sockets, ev'.ws, ev'.message).closes
     /\ ev'.op = "close" => closes' = webSocketClose(sockets', ev'.tags, ev'.reason)
     /\ ev'.op = "alarm" =>
          (alarm' = NoAlarm <=> DOMAIN sockets = {})]_vars

\* the event handled last is a handshake during which a storage call threw
IsFailedHandshake == ev.op = "fetch" /\ ev.upgrade /\ "threw" \in DOMAIN ev

\* C26: a handshake that throws anything but the token and the singleton error
\* (a storage call rejecting, before or after the socket pair is created) is
\* answered 500, and the server socket of its pair, when the pair was created,
\* is not left open and unaccepted: it is closed.
C26_OtherException ==
  IsFailedHandshake =>
    /\ response.status = INTERNAL_SERVER_ERROR
    /\ (ev.server # 0 => (ev.server \in Closed \/ ev.server \in DOMAIN sockets))

\* the event handled last is an alarm during which the storage call threw
IsFailedAlarm == ev.op = "alarm" /\ "threw" \in DOMAIN ev

\* C27: when the storage call of the alarm handler throws (setAlarm on
\* re-arming, delete on expiry) the error is caught: nothing is thrown out of
\* the handler, which sends nothing and closes nothing, the registry and the
\* store are as they were, and the host goes on to the next event.
C27_AlarmCatches ==
  [][/\ IsFailedAlarm' =>
          /\ ~ev'.thrown
          /\ sockets' = sockets
          /\ storage' = storage
          /\ sent' = <<>>
          /\ closes' = <<>>
     /\ IsFailedAlarm => ev' = Idle]_vars

\* the keep-alive alarm fires while a pc and a tablet are registered, and
\* setAlarm throws
C27_Witness ==
  /\ IsFailedAlarm
  /\ ev.threw = "setAlarm"
  /\ socketsOfType(PC) # {}
  /\ socketsOfType(TABLET) # {}
  /\ ~ev.thrown
  /\ alarm = NoAlarm

\* the session is destroyed: the store holds no tablet token
Destroyed == TABLET_CONNECTION_TOKEN \notin DOMAIN storage

\* C28: from a state where the alarm is armed and from which the registry stays
\* empty (every socket has closed and none is accepted afterwards), the alarm
\* eventually fires and the tablet token is deleted; once the token is deleted
\* it stays deleted and no join is accepted; and as long as the token is in the
\* store the alarm is armed.
C28_SessionExpires ==
  /\ [](~Destroyed => alarm # NoAlarm)
  /\ [][(Destroyed /\ storage # <<>>) => (Destroyed' /\ ~IsAccepted(JOIN)')]_vars
  /\ ((alarm # NoAlarm /\ [](DOMAIN sockets = {})) ~> Destroyed)

\* the alarm has fired with an empty registry after two tablets had joined and
\* left: the token is deleted
C28_Witness ==
  /\ ev.op = "alarm"
  /\ Len(assigned) = 2
  /\ DOMAIN sockets = {}
  /\ Destroyed
  /\ alarm = NoAlarm

\* C31: a successful join leaves the alarm armed, and an armed alarm stays
\* armed over every step that leaves a socket registered: the alarm that fires
\* while a socket is registered is armed again, so from a join on the alarm is
\* armed in every state until the registry is empty.
C31_KeepAlive ==
  /\ [](IsAccepted(JOIN) => alarm # NoAlarm)
  /\ [][(alarm # NoAlarm /\ DOMAIN sockets' # {}) => alarm' # NoAlarm]_vars

\* the alarm has fired after a join while the tablet is registered, and is
\* armed with the keep-alive interval
C31_Witness ==
  /\ ev.op = "alarm"
  /\ assigned # <<>>
  /\ socketsOfType(TABLET) # {}
  /\ alarm = keepAliveInterval

\* C33: a handshake answered 403 or 409 changes nothing: the store (both tokens
\* and the id counter), the armed alarm and the registry with its tags are
\* after the handshake what they were before it.
C33_FailedHandshakeFrame ==
  [][(ev'.op = "fetch" /\ response'.status \in {FORBIDDEN, CONFLICT})
       => /\ storage' = storage
          /\ alarm' = alarm
          /\ sockets' = sockets]_vars

\* a join with the token of an earlier join is answered 403 while a pc and a
\* tablet are registered and the keep-alive is armed
C33_Witness ==
  /\ IsHandshake(JOIN)
  /\ response.status = FORBIDDEN
  /\ ev.token \in usedTokens
  /\ socketsOfType(PC) # {}
  /\ socketsOfType(TABLET) # {}
  /\ alarm = keepAliveInterval
  /\ TABLET_ID_COUNTER \in DOMAIN storage

\* C40: a connect that arrives when the store holds no pc token, and a join
\* that arrives when the store holds no tablet token (never stored, or deleted
\* by the alarm), is answered 403 whatever token it carries, the request
\* without a token parameter included, and its socket is not registered.
C40_NoStoredToken ==
  [][/\ (IsHandshake(CONNECT)' /\ PC_CONNECTION_TOKEN \notin DOMAIN storage)
          => (response'.status = FORBIDDEN /\ sockets' = sockets)
     /\ (IsHandshake(JOIN)' /\ TABLET_CONNECTION_TOKEN \notin DOMAIN storage)
          => (response'.status = FORBIDDEN /\ sockets' = sockets)]_vars

\* a join without a token parameter is answered 403 after the alarm has deleted
\* the tablet token of an initialized session
C40_Witness ==
  /\ IsHandshake(JOIN)
  /\ ev.token = null
  /\ PC_CONNECTION_TOKEN \in DOMAIN storage
  /\ TABLET_CONNECTION_TOKEN \notin DOMAIN storage
  /\ response.status = FORBIDDEN

\* the frames of the last handler that carry the tablet token the store holds
Disclosures ==
  {i \in 1..Len(sent) :
     /\ "newTabletToken" \in DOMAIN sent[i].frame
     /\ TABLET_CONNECTION_TOKEN \in DOMAIN storage
     /\ sent[i].frame.newTabletToken = storage[TABLET_CONNECTION_TOKEN]}

\* C32: a frame that carries the tablet token the store holds is sent to pc
\* sockets only, and only as the tablet_connected frame: no tablet socket and
\* no unknown socket is ever sent the current token.
C32_TokenToPcOnly ==
  \A i \in Disclosures :
    /\ sent[i].to \in socketsOfType(PC)
    /\ sent[i].frame.type = TABLET_CONNECTED

\* C34: whenever a socket is registered, an alarm is armed.
C34_AlarmWhileConnected ==
  DOMAIN sockets # {} => alarm # NoAlarm

\* C35: a join is accepted only while a pc socket is registered, and the token
\* it stores is sent to at least one pc socket in a tablet_connected frame.
C35_JoinNeedsPc ==
  IsAccepted(JOIN) =>
    /\ socketsOfType(PC) # {}
    /\ \E i \in Notifications :
         /\ sent[i].to \in socketsOfType(PC)
         /\ sent[i].frame.newTabletToken = storage[TABLET_CONNECTION_TOKEN]

C39_NewPcSpared ==
  (ev.op = "close" /\ ev.reason = <<PC, " (id: ", "0", ") disconnected">>)
    => Closed \cap socketsOfType(PC) = {}

\* handshake j arrived while handshake i was suspended at the await `at`
ArrivedDuring(j, i, at) == <<i, at>> \in handlers[j].during

Accepted(i) == handlers[i].status = SWITCHING_PROTOCOLS

\* handshake i has come to the end of fetch in this step
Ends(i) == handlers[i].at # "done" /\ handlers'[i].at = "done"

\* C36: of two connect handshakes with the valid token, the second arriving
\* while the first is suspended on its read of the stored pc token, at most one
\* is accepted; and no connect handshake makes its singleton check while
\* another is between its own check and its accept.
C36_ConnectOverlap ==
  /\ [](\A i, j \in 1..Len(handlers) :
          (/\ ArrivedDuring(j, i, "getPcToken")
           /\ handlers[i].pathEnd = CONNECT /\ handlers[j].pathEnd = CONNECT
           /\ handlers[i].token = handlers[j].token)
          => ~(Accepted(i) /\ Accepted(j)))
  /\ [][\A j \in 1..Len(handlers) :
          (handlers[j].pathEnd = CONNECT /\ handlers[j].at = "getCounter"
             /\ handlers'[j].at # "getCounter")
          => \A i \in 1..Len(handlers) : handlers[i].at # "getPcToken"]_vars

\* the second connect arrived while the first waited for the stored token; the
\* first was accepted and the second has just been answered 409
C36_Witness ==
  /\ Len(handlers) >= 2
  /\ ArrivedDuring(2, 1, "getPcToken")
  /\ handlers[1].pathEnd = CONNECT /\ handlers[2].pathEnd = CONNECT
  /\ handlers[1].token = handlers[2].token
  /\ Accepted(1)
  /\ handlers[2].status = CONFLICT
  /\ response.status = CONFLICT

\* C37: of two join handshakes with the same token, the second arriving while
\* the first is suspended at one of its awaits, at most one is accepted; and the
\* satellites accepted never have the same id.
C37_JoinOverlap ==
  /\ \A i, j \in 1..Len(handlers) :
       (/\ \E at \in Awaits : ArrivedDuring(j, i, at)
        /\ handlers[i].pathEnd = JOIN /\ handlers[j].pathEnd = JOIN
        /\ handlers[i].token = handlers[j].token)
       => ~(Accepted(i) /\ Accepted(j))
  /\ \A i, j \in 1..Len(handlers) :
       (/\ i # j
        /\ handlers[i].pathEnd = JOIN /\ handlers[j].pathEnd = JOIN
        /\ Accepted(i) /\ Accepted(j))
       => handlers[i].clientId # handlers[j].clientId

\* the second join arrived while the first waited for its put of the counter;
\* the first was accepted with id 0 and the second has just been answered 403
C37_Witness ==
  /\ Len(handlers) >= 2
  /\ ArrivedDuring(2, 1, "putCounter")
  /\ handlers[1].pathEnd = JOIN /\ handlers[2].pathEnd = JOIN
  /\ handlers[1].token = handlers[2].token
  /\ Accepted(1) /\ handlers[1].clientId = 0
  /\ handlers[2].status = FORBIDDEN
  /\ response.status = FORBIDDEN

====
